---- MODULE Spec2Model ----
(***************************************************************************)
(* Model of the Giffer deck viewer (src/justprogram/src/Giffer.jsx) as     *)
(* mounted by src/unnamed/part_000 (createRoot inside StrictMode).         *)
(*                                                                         *)
(* The component state is the six useState cells.  Every callback of the   *)
(* event loop is one action: mounting, a change of the apiKey prop (the    *)
(* old effect's cleanup followed by the new effect), unmounting, the two   *)
(* resumptions of fetchDeck (after await fetch and after await            *)
(* res.json()), and a click on one of the two vote buttons.  The state     *)
(* updates one callback makes are batched into one commit.                 *)
(***************************************************************************)
EXTENDS Integers, Sequences, FiniteSets, TLC

\* ---------------------------------------------------------------- bounds
MaxDeck == 2        \* longest data array the API answers with
MaxRequests == 2    \* fetches issued over one run

\* ------------------------------------------------------ JavaScript values
Undefined == "<undefined>"

Falsy(v) == v \in {Undefined, ""}

\* a || b
Or(a, b) == IF Falsy(a) THEN b ELSE a

\* values of the apiKey prop
Str(t) == [kind |-> "string", text |-> t]
NotAString == [kind |-> "number", text |-> "7"]
Props == {Str("e1"), Str("e2"), Str(""), NotAString}

\* !apiKey
Truthy(p) == p.kind = "number" \/ (p.kind = "string" /\ p.text # "")

\* variant: only the truthiness of the prop is tested
IsValidEndpointTruthy(p) == Truthy(p)

\* the negation of the guard !apiKey || typeof apiKey !== "string"
IsValidEndpoint(p) == ~(~Truthy(p) \/ p.kind # "string")

\* the text of the message, without the quotes around apiKey
InvalidEndpointMsg == "Invalid endpoint: Pass a full Giphy URL as the apiKey prop."

\* ------------------------------------------------------- the external API
Statuses == {200, 500}

\* Response.ok
ResOk(status) == status >= 200 /\ status <= 299

\* errors the awaited promises reject with: fetch (TypeError), res.json()
\* (SyntaxError), and the TypeError of calling .map on a non-array data
Thrown(m) == [message |-> m, str |-> "TypeError: " \o m]
NetworkErrors == {Thrown("Failed to fetch")}
ParseErrors == {Thrown("Unexpected token < in JSON")}
MapError == Thrown("(intermediate value).map is not a function")

\* new Error of HTTP and res.status
HttpError(status) == [message |-> "HTTP " \o ToString(status),
                      str |-> "Error: HTTP " \o ToString(status)]

\* raw API records; a missing field or a missing images.<variant> is Undefined
Raw(i, t, dm, o, ds, u) == [id |-> i, title |-> t, downsized_medium |-> dm,
                            original |-> o, downsized |-> ds, url |-> u]
\* two records with the same id: one complete, one with no title, an empty
\* downsized_medium url and no original
RawRecords == { Raw("a", "cat", "a_dm", "a_or", "a_ds", "a_url"),
                Raw("a", Undefined, "", Undefined, "b_ds", Undefined) }

RECURSIVE SeqsUpTo(_, _)
SeqsUpTo(S, n) == IF n = 0 THEN {<<>>}
                  ELSE LET shorter == SeqsUpTo(S, n - 1)
                       IN  shorter \cup {Append(q, x) : q \in shorter, x \in S}

\* parsed JSON bodies: null, an object without data, an object whose data
\* is not an array, an object whose data is an array of records
Body(k, d) == [kind |-> k, data |-> d]
Bodies == {Body("null", <<>>), Body("nodata", <<>>), Body("notarray", <<>>)}
          \cup {Body("array", d) : d \in SeqsUpTo(RawRecords, MaxDeck)}
NoBody == Body("none", <<>>)

\* json?.data || []
JsonData(json) == IF json.kind = "array" THEN json.data ELSE <<>>

\* .map exists on arrays only
MapThrows(json) == json.kind = "notarray"

\* the object literal built for one record; ref is the identity of the
\* freshly allocated object (request, position)
MapRecord(d, rid, pos) ==
    [id |-> d.id,
     title |-> Or(d.title, "Untitled"),
     preview |-> Or(Or(d.downsized_medium, d.original), d.downsized),
     url |-> d.url,
     ref |-> <<rid, pos>>]

Mapped(json, rid) ==
    [i \in 1..Len(JsonData(json)) |-> MapRecord(JsonData(json)[i], rid, i)]

\* String(e?.message || e)
ErrorText(e) == Or(e.message, e.str)

VARIABLES
    apiKey,     \* the prop
    phase,      \* "constructed", "mounted", "unmounted"
    gifs, idx, liked, disliked, loading, error,   \* the useState cells
    requests,   \* one record per fetchDeck call: the ignore flag of its
                \* closure and where the call is suspended
    cleanup,    \* request whose ignore the effect's cleanup sets; 0 if the
                \* effect returned no cleanup
    last        \* the callback that ran last, with the pointer before it

vars == <<apiKey, phase, gifs, idx, liked, disliked, loading, error,
          requests, cleanup, last>>

state == <<gifs, idx, liked, disliked, loading, error>>

St == [gifs |-> gifs, idx |-> idx, liked |-> liked, disliked |-> disliked,
       loading |-> loading, error |-> error,
       requests |-> requests, cleanup |-> cleanup]

Commit(s) ==
    /\ gifs' = s.gifs
    /\ idx' = s.idx
    /\ liked' = s.liked
    /\ disliked' = s.disliked
    /\ loading' = s.loading
    /\ error' = s.error
    /\ requests' = s.requests
    /\ cleanup' = s.cleanup

NoError == [message |-> "", str |-> ""]

\* op: the callback; rid: the request it resumed; kind: the button, the
\* validity of the new endpoint, or whether the resumed request was the one of
\* the latest effect; json, e: what the awaited promise settled with; n: the
\* pointer before the callback
Event(op, rid, kind, json, e) ==
    [op |-> op, rid |-> rid, kind |-> kind, json |-> json, e |-> e, n |-> idx]

\* ------------------------------------------------------------ the effect
\* variant: the cleanup leaves the flag alone
RunCleanupSkipped(s) == s

\* return () => { ignore = true; }
RunCleanup(s) ==
    IF s.cleanup = 0 THEN s
    ELSE [s EXCEPT !.requests[s.cleanup].ignore = TRUE]

\* the body of the useEffect callback, up to the first await of fetchDeck; the
\* url is only handed to fetch, whose outcome is any of the outcomes below
RunEffect(s, p) ==
    IF ~IsValidEndpoint(p)
    THEN [s EXCEPT !.error = InvalidEndpointMsg, !.cleanup = 0]
    ELSE [s EXCEPT !.loading = TRUE,
                   !.error = "",
                   !.requests = Append(@, [ignore |-> FALSE, stage |-> "fetch"]),
                   !.cleanup = Len(s.requests) + 1]

\* ---------------------------------------------------- fetchDeck, resumed
\* variant: the finally block does not clear the loading state
FinallyKeepsLoading(s, r) == [s EXCEPT !.requests[r].stage = "done"]

\* finally { if (!ignore) setLoading(false); }
Finally(s, r) ==
    LET t == IF s.requests[r].ignore THEN s ELSE [s EXCEPT !.loading = FALSE]
    IN  [t EXCEPT !.requests[r].stage = "done"]

\* variant: the catch block swallows the error
CatchSilent(s, r, e) == s

\* catch (e) { if (!ignore) setError(String(e?.message || e)); }
Catch(s, r, e) ==
    IF s.requests[r].ignore THEN s ELSE [s EXCEPT !.error = ErrorText(e)]

\* variant: the pointer is not reset with the deck
ApplyDeckKeepPointer(s, r, json) ==
    IF s.requests[r].ignore THEN s
    ELSE IF MapThrows(json) THEN Catch(s, r, MapError)
    ELSE [s EXCEPT !.gifs = Mapped(json, r), !.liked = <<>>, !.disliked = <<>>]

\* variant: the vote lists are not cleared with the deck
ApplyDeckKeepVotes(s, r, json) ==
    IF s.requests[r].ignore THEN s
    ELSE IF MapThrows(json) THEN Catch(s, r, MapError)
    ELSE [s EXCEPT !.gifs = Mapped(json, r), !.idx = 0]

\* if (!ignore) { ...map...; setGifs; setIdx(0); setLiked([]); setDisliked([]) }
ApplyDeck(s, r, json) ==
    IF s.requests[r].ignore THEN s
    ELSE IF MapThrows(json) THEN Catch(s, r, MapError)
    ELSE [s EXCEPT !.gifs = Mapped(json, r),
                   !.idx = 0,
                   !.liked = <<>>,
                   !.disliked = <<>>]

\* ------------------------------------------------------------ handleVote
\* const current = gifs[idx]
HasCurrent(s) == s.idx + 1 \in DOMAIN s.gifs

\* variant: every vote goes to the liked list
HandleVoteAlwaysLikes(s, kind) ==
    IF ~HasCurrent(s) THEN s
    ELSE [s EXCEPT !.liked = Append(@, s.gifs[s.idx + 1]), !.idx = @ + 1]

\* variant: no early return; the pointer moves past the end of the deck
HandleVoteUnguarded(s, kind) ==
    IF ~HasCurrent(s) THEN [s EXCEPT !.idx = @ + 1]
    ELSE LET current == s.gifs[s.idx + 1]
             t == IF kind = "like"
                  THEN [s EXCEPT !.liked = Append(@, current)]
                  ELSE [s EXCEPT !.disliked = Append(@, current)]
         IN  [t EXCEPT !.idx = @ + 1]

\* variant: the pointer is not advanced
HandleVoteNoAdvance(s, kind) ==
    IF ~HasCurrent(s) THEN s
    ELSE LET current == s.gifs[s.idx + 1]
         IN  IF kind = "like"
             THEN [s EXCEPT !.liked = Append(@, current)]
             ELSE [s EXCEPT !.disliked = Append(@, current)]

HandleVote(s, kind) ==
    IF ~HasCurrent(s) THEN s
    ELSE LET current == s.gifs[s.idx + 1]
             t == IF kind = "like"
                  THEN [s EXCEPT !.liked = Append(@, current)]
                  ELSE [s EXCEPT !.disliked = Append(@, current)]
         IN  [t EXCEPT !.idx = @ + 1]

\* --------------------------------------------------------------- actions
Init ==
    /\ apiKey \in Props
    /\ phase = "constructed"
    /\ gifs = <<>>
    /\ idx = 0
    /\ liked = <<>>
    /\ disliked = <<>>
    /\ loading = FALSE
    /\ error = ""
    /\ requests = <<>>
    /\ cleanup = 0
    /\ last = [op |-> "init", rid |-> 0, kind |-> "", json |-> NoBody,
               e |-> NoError, n |-> 0]

\* first commit; under StrictMode the effect is run, cleaned up and run again
Mount(strict) ==
    /\ phase = "constructed"
    /\ strict /\ IsValidEndpoint(apiKey) => Len(requests) + 2 <= MaxRequests
    /\ phase' = "mounted"
    /\ Commit(IF strict
              THEN RunEffect(RunCleanup(RunEffect(St, apiKey)), apiKey)
              ELSE RunEffect(St, apiKey))
    /\ last' = Event("mount", 0, IF strict THEN "strict" ELSE "plain", NoBody,
                     NoError)
    /\ UNCHANGED apiKey

\* the parent re-renders with another endpoint: [apiKey] changed
PropChange(p) ==
    /\ phase = "mounted"
    /\ p # apiKey
    /\ IsValidEndpoint(p) => Len(requests) < MaxRequests
    /\ apiKey' = p
    /\ Commit(RunEffect(RunCleanup(St), p))
    /\ last' = Event("prop", 0, "", NoBody, NoError)
    /\ UNCHANGED phase

Unmount ==
    /\ phase = "mounted"
    /\ phase' = "unmounted"
    /\ Commit(RunCleanup(St))
    /\ last' = Event("unmount", 0, "", NoBody, NoError)
    /\ UNCHANGED apiKey

\* the request of the latest run of the effect, 0 if that run issued none or
\* the component is gone
Current == IF phase = "mounted" /\ apiKey.kind = "string" /\ apiKey.text # ""
           THEN Len(requests) ELSE 0

Stale(r) == IF r = Current THEN "current" ELSE "stale"

\* await fetch(apiKey) rejects
FetchRejects(r, e) ==
    /\ requests[r].stage = "fetch"
    /\ Commit(Finally(Catch(St, r, e), r))
    /\ last' = Event("failure", r, Stale(r), NoBody, e)
    /\ UNCHANGED <<apiKey, phase>>

\* await fetch(apiKey) resolves with a response
FetchResponds(r, status) ==
    /\ requests[r].stage = "fetch"
    /\ IF ResOk(status)
       THEN /\ Commit([St EXCEPT !.requests[r].stage = "json"])
            /\ last' = Event("response", r, Stale(r), NoBody, NoError)
       ELSE /\ Commit(Finally(Catch(St, r, HttpError(status)), r))
            /\ last' = Event("failure", r, Stale(r), NoBody, HttpError(status))
    /\ UNCHANGED <<apiKey, phase>>

\* await res.json() rejects
JsonRejects(r, e) ==
    /\ requests[r].stage = "json"
    /\ Commit(Finally(Catch(St, r, e), r))
    /\ last' = Event("failure", r, Stale(r), NoBody, e)
    /\ UNCHANGED <<apiKey, phase>>

\* await res.json() resolves with the parsed body
JsonResolves(r, json) ==
    /\ requests[r].stage = "json"
    /\ Commit(Finally(ApplyDeck(St, r, json), r))
    /\ last' = IF MapThrows(json) /\ ~requests[r].ignore
               THEN Event("failure", r, Stale(r), json, MapError)
               ELSE Event("success", r, Stale(r), json, NoError)
    /\ UNCHANGED <<apiKey, phase>>

\* a click on the Like or the Dislike button
Vote(kind) ==
    /\ phase = "mounted"
    /\ Commit(HandleVote(St, kind))
    /\ last' = Event("vote", 0, kind, NoBody, NoError)
    /\ UNCHANGED <<apiKey, phase>>

Next ==
    \/ \E strict \in BOOLEAN : Mount(strict)
    \/ \E p \in Props : PropChange(p)
    \/ Unmount
    \/ \E r \in DOMAIN requests : \E e \in NetworkErrors : FetchRejects(r, e)
    \/ \E r \in DOMAIN requests : \E status \in Statuses : FetchResponds(r, status)
    \/ \E r \in DOMAIN requests : \E e \in ParseErrors : JsonRejects(r, e)
    \/ \E r \in DOMAIN requests : \E json \in Bodies : JsonResolves(r, json)
    \/ \E kind \in {"like", "dislike"} : Vote(kind)

Spec == Init /\ [][Next]_vars

TypeOK ==
    /\ apiKey \in Props
    /\ phase \in {"constructed", "mounted", "unmounted"}
    /\ idx \in 0..MaxDeck
    /\ Len(gifs) <= MaxDeck
    /\ loading \in BOOLEAN
    /\ Len(requests) <= MaxRequests
    /\ cleanup \in 0..Len(requests)

\* ---------------------------------------------------------------- claims
Resolved(ev) == ev.op \in {"success", "failure"}

\* the records of a body as the API sent them
DataOf(json) == IF json.kind = "array" THEN json.data ELSE <<>>

\* the endpoint is the empty string or no string at all
InvalidProp(p) == p.kind # "string" \/ p.text = ""

\* C1: a resumption of fetchDeck for a request that is not the one of the
\* latest effect run (its endpoint was replaced, or the component was torn
\* down), whether it ends in success, in failure or at the second await,
\* changes none of gifs, idx, liked, disliked, loading and error.
C1_StaleResolutionDiscarded ==
    [][last'.kind = "stale" => UNCHANGED state]_vars

\* a stale request delivers a non-empty deck after the current request has
\* already delivered its own
C1_Witness ==
    /\ last.op = "success"
    /\ last.kind = "stale"
    /\ Len(last.json.data) > 0
    /\ phase = "mounted"
    /\ Current # 0
    /\ requests[Current].stage = "done"
    /\ last.rid < Current

\* C2: right after the request of the latest effect run resolves with a body
\* whose records can be mapped, gifs holds one item per record, in response
\* order, with the title defaulted to Untitled and the preview taken from the
\* first available of downsized_medium, original, downsized; idx is 0 and
\* liked and disliked are empty.
C2_SuccessReplacesDeck ==
    (last.op = "success" /\ last.kind = "current") =>
        LET data == DataOf(last.json)
        IN  /\ Len(gifs) = Len(data)
            /\ \A i \in DOMAIN data :
                 /\ gifs[i].id = data[i].id
                 /\ gifs[i].url = data[i].url
                 /\ gifs[i].title = IF data[i].title \in {Undefined, ""}
                                    THEN "Untitled" ELSE data[i].title
                 /\ gifs[i].preview =
                      IF data[i].downsized_medium \notin {Undefined, ""}
                      THEN data[i].downsized_medium
                      ELSE IF data[i].original \notin {Undefined, ""}
                      THEN data[i].original
                      ELSE data[i].downsized
            /\ idx = 0
            /\ liked = <<>>
            /\ disliked = <<>>

\* a two-record deck arrives after votes were cast on the previous deck
C2_Witness ==
    /\ last.op = "success"
    /\ last.kind = "current"
    /\ last.n > 0
    /\ Len(gifs) = 2
    /\ gifs[1] # gifs[2]

\* C3: a vote cast while gifs[idx] exists advances idx by one and appends
\* gifs[idx] to liked (like) or to disliked (dislike); the other list, gifs,
\* loading and error stay as they were.
C3_VoteConsumesCurrent ==
    [][(last'.op = "vote" /\ idx < Len(gifs)) =>
          /\ idx' = idx + 1
          /\ IF last'.kind = "like"
             THEN liked' = Append(liked, gifs[idx + 1]) /\ disliked' = disliked
             ELSE disliked' = Append(disliked, gifs[idx + 1]) /\ liked' = liked
          /\ UNCHANGED <<gifs, loading, error>>]_vars

\* the second card of a deck was disliked after the first was liked
C3_Witness ==
    /\ last.op = "vote"
    /\ last.kind = "dislike"
    /\ last.n = 1
    /\ idx = 2
    /\ Len(liked) = 1
    /\ disliked = <<gifs[2]>>

\* C4: a vote cast when idx >= length of gifs changes none of gifs, idx,
\* liked, disliked, loading and error.
C4_VoteOnExhaustedDeckIsNoOp ==
    [][(last'.op = "vote" /\ idx >= Len(gifs)) => UNCHANGED state]_vars

\* a vote on a non-empty deck whose cards are all consumed
C4_Witness ==
    /\ last.op = "vote"
    /\ Len(gifs) > 0
    /\ last.n = Len(gifs)
    /\ idx = Len(gifs)

\* C5: no item (object) is in both liked and disliked, and the two lists
\* together are never longer than gifs.
C5_ListsDisjointAndBounded ==
    /\ \A i \in DOMAIN liked : \A j \in DOMAIN disliked : liked[i] # disliked[j]
    /\ Len(liked) + Len(disliked) <= Len(gifs)

\* both lists are in use, on two records that carry the same id
C5_Witness ==
    /\ Len(liked) = 1
    /\ Len(disliked) = 1
    /\ liked[1].id = disliked[1].id
    /\ Len(gifs) = 2

\* C6: when the request of the latest effect run fails (fetch rejects, the
\* status is not 2xx, res.json() rejects, or mapping throws), error becomes
\* the message of that failure (HTTP followed by the status for a non-2xx
\* status), loading becomes false, and gifs, idx, liked and disliked stay as
\* they were.
C6_FailureSurfacesMessage ==
    [][(last'.op = "failure" /\ last'.kind = "current") =>
          /\ error' = last'.e.message
          /\ error' # ""
          /\ loading' = FALSE
          /\ UNCHANGED <<gifs, idx, liked, disliked>>]_vars

\* HTTP 500 on a deck that has a consumed card
C6_Witness ==
    /\ last.op = "failure"
    /\ last.kind = "current"
    /\ error = "HTTP 500"
    /\ ~loading
    /\ Len(gifs) = 2
    /\ idx = 1

\* C7: when the effect runs for an endpoint that is empty or not a string,
\* error becomes the Invalid endpoint message, no request is issued, and gifs,
\* idx, liked and disliked stay as they were.
C7_InvalidEndpoint ==
    [][(last'.op \in {"mount", "prop"} /\ InvalidProp(apiKey')) =>
          /\ error' = InvalidEndpointMsg
          /\ Len(requests') = Len(requests)
          /\ UNCHANGED <<gifs, idx, liked, disliked>>]_vars

\* the endpoint became a non-string while a deck with a vote was on display
C7_Witness ==
    /\ last.op = "prop"
    /\ apiKey = NotAString
    /\ error = InvalidEndpointMsg
    /\ Len(gifs) > 0
    /\ idx > 0

\* C8: the effect run for a valid endpoint sets loading and clears error as it
\* issues its request; the resolution of that request, success or failure,
\* clears loading; and whenever that request has resolved loading is false.
C8_LoadingBracketsRequest ==
    [][/\ (last'.op \in {"mount", "prop"} /\ ~InvalidProp(apiKey')) =>
            /\ loading'
            /\ error' = ""
            /\ Len(requests') > Len(requests)
            /\ requests'[Len(requests')].stage = "fetch"
       /\ (Resolved(last') /\ last'.kind = "current") => ~loading'
       /\ (Current' # 0 /\ requests'[Current'].stage = "done") => ~loading'
      ]_vars

\* the second endpoint's request resolved after a failure of the first
C8_Witness ==
    /\ last.op = "success"
    /\ last.kind = "current"
    /\ last.rid = 2
    /\ ~loading
    /\ error = ""

\* C9: while the component is mounted, loading is true only if the request of
\* the latest effect run is still unresolved.
C9_LoadingOnlyWhileInFlight ==
    (phase = "mounted" /\ loading) =>
        (Current # 0 /\ requests[Current].stage # "done")

\* C10: idx is the combined length of liked and disliked and at most the
\* length of gifs; every consumed card gifs[1..idx] is in exactly one of the
\* two lists, the lists hold nothing else, and each list is in deck order.
InDeckOrder(list) ==
    \E f \in [DOMAIN list -> 1..idx] :
        /\ \A i \in DOMAIN list : list[i] = gifs[f[i]]
        /\ \A i, j \in DOMAIN list : i < j => f[i] < f[j]

C10_ListsAreConsumedPrefix ==
    /\ idx = Len(liked) + Len(disliked)
    /\ idx <= Len(gifs)
    /\ \A k \in 1..idx :
         (\E i \in DOMAIN liked : liked[i] = gifs[k])
            # (\E j \in DOMAIN disliked : disliked[j] = gifs[k])
    /\ InDeckOrder(liked)
    /\ InDeckOrder(disliked)

\* a second deck, fetched after votes on the first, with both cards consumed
C10_Witness ==
    /\ idx = 2
    /\ Len(gifs) = 2
    /\ Len(liked) = 1
    /\ Len(disliked) = 1
    /\ gifs[1].ref[1] = 2
====
